---------------------------- MODULE Spec2Model ----------------------------
(***************************************************************************)
(* A model of the image blender: api/server.py (the upload endpoint, the   *)
(* bounded upload writer, the filename sanitizer, the plugin resolver and  *)
(* the fallback blend engine) and blend.py (accumulate-and-divide).        *)
(*                                                                         *)
(* Strings the code inspects character by character (file names, media     *)
(* types) are sequences of one-character strings.  Requests are coroutines *)
(* of one event loop: a request runs alone from one `await` to the next,   *)
(* which the variable `running` records.                                   *)
(***************************************************************************)
EXTENDS Integers, Sequences, FiniteSets, TLC

(***************************************************************************)
(* Program constants (api/server.py lines 22-27, 36, 46).                  *)
(***************************************************************************)
MIN_FILES == 2
MAX_FILES == 15
MAX_FILE_MB == 4
MAX_FILE_BYTES == MAX_FILE_MB * 1024 * 1024
READ_SIZE == 1024 * 1024
STEM_MAX == 40

PNG  == <<".", "p", "n", "g">>
JPG  == <<".", "j", "p", "g">>
JPEG == <<".", "j", "p", "e", "g">>
WEBP == <<".", "w", "e", "b", "p">>
ACCEPTED_EXTS == {PNG, JPG, JPEG, WEBP}

IMAGE_PNG  == <<"i", "m", "a", "g", "e", "/", "p", "n", "g">>
IMAGE_JPEG == <<"i", "m", "a", "g", "e", "/", "j", "p", "e", "g">>
IMAGE_WEBP == <<"i", "m", "a", "g", "e", "/", "w", "e", "b", "p">>
ACCEPTED_MEDIA_TYPES == {IMAGE_PNG, IMAGE_JPEG, IMAGE_WEBP}

(***************************************************************************)
(* Bounds of the model.                                                    *)
(***************************************************************************)
MaxBatch == 3        \* longest batch whose uploads are enumerated one by one
MaxStream == 5       \* most reads that return data, where every chunking is tried
MaxPixel == 15       \* channel values of the blend check are 0..MaxPixel

(***************************************************************************)
(* Characters and the string functions of Python the code uses.            *)
(***************************************************************************)
LowerAlpha == <<"a", "b", "c", "d", "e", "f", "g", "h", "i", "j", "k", "l", "m",
                "n", "o", "p", "q", "r", "s", "t", "u", "v", "w", "x", "y", "z">>
UpperAlpha == <<"A", "B", "C", "D", "E", "F", "G", "H", "I", "J", "K", "L", "M",
                "N", "O", "P", "Q", "R", "S", "T", "U", "V", "W", "X", "Y", "Z">>
Digits == {"0", "1", "2", "3", "4", "5", "6", "7", "8", "9"}

Range(s) == {s[i] : i \in 1..Len(s)}

\* str.lower(), one character
lowerChar(ch) ==
    IF \E i \in 1..26 : UpperAlpha[i] = ch
    THEN LowerAlpha[CHOOSE i \in 1..26 : UpperAlpha[i] = ch]
    ELSE ch

\* str.lower()
lower(s) == [i \in 1..Len(s) |-> lowerChar(s[i])]

\* str.isalnum(), one character
isalnum(ch) == ch \in Range(LowerAlpha) \cup Range(UpperAlpha) \cup Digits

\* str.rfind(c), 1-based; 0 when c does not occur
rfind(s, c) ==
    IF \E i \in 1..Len(s) : s[i] = c
    THEN CHOOSE i \in 1..Len(s) : s[i] = c /\ \A j \in (i + 1)..Len(s) : s[j] # c
    ELSE 0

\* os.path.basename: what follows the last "/"
basename(p) == SubSeq(p, rfind(p, "/") + 1, Len(p))

\* os.path.splitext: split at the last dot, unless only dots precede it
splitext(base) ==
    LET dot == rfind(base, ".") IN
    IF dot > 0 /\ \E j \in 1..(dot - 1) : base[j] # "."
    THEN <<SubSeq(base, 1, dot - 1), SubSeq(base, dot, Len(base))>>
    ELSE <<base, <<>>>>

\* pathlib's PurePath.suffix: from the last dot of the final component, when that
\* dot is neither its first nor its last character
PathSuffix(name) ==
    LET nm == basename(name)
        i  == rfind(nm, ".")
    IN IF 1 < i /\ i < Len(nm) THEN SubSeq(nm, i, Len(nm)) ELSE <<>>

Truncate(s, n) == IF Len(s) > n THEN SubSeq(s, 1, n) ELSE s

\* secrets.token_hex(4): eight hexadecimal digits; two of the 16^8 values
Tokens == {<<"0", "0", "0", "0", "0", "0", "0", "0">>,
           <<"f", "f", "f", "f", "f", "f", "f", "f">>}

IMG_STEM == <<"i", "m", "g">>

\* _sanitize_filename with its random token given
_sanitize_filename(name, token) ==
    LET base == basename(name)
        se   == splitext(base)
        stem == se[1]
        ext  == IF lower(se[2]) \in ACCEPTED_EXTS THEN lower(se[2]) ELSE PNG
        safe_stem == Truncate([i \in 1..Len(stem) |->
                                 IF isalnum(stem[i]) \/ stem[i] \in {"-", "_"}
                                 THEN stem[i] ELSE "_"], STEM_MAX)
    IN (IF safe_stem = <<>> THEN IMG_STEM ELSE safe_stem) \o <<"_">> \o token \o ext


(***************************************************************************)
(* Images, files and uploads.  An image is known by its pixel size; the    *)
(* size <<0, 0>> stands for content PIL cannot decode.  An upload's stream *)
(* is the sequence of chunk lengths its reads return before the empty one. *)
(***************************************************************************)
Undecodable == <<0, 0>>
SMALL == <<1, 1>>
LARGE == <<2, 3>>

\* the names tempfile.TemporaryDirectory(dir="/tmp", prefix="blend_") can draw
DirNames == {"/tmp/blend_a", "/tmp/blend_b"}
NoDir == "none"
NoPath == <<NoDir, <<>>>>
OUT_PNG == <<"o", "u", "t", ".", "p", "n", "g">>
MISSING == <<"m", "i", "s", "s", "i", "n", "g">>

\* client file names and declared media types
A_PNG     == <<"a", ".", "p", "n", "g">>
B_C_JPG   == <<"u", "p", "/", "B", " ", "c", ".", "J", "P", "G">>
NOTES_TXT == <<"n", "o", "t", "e", "s", ".", "t", "x", "t">>
X_GIF     == <<"x", ".", "g", "i", "f">>
IMAGE_GIF == <<"i", "m", "a", "g", "e", "/", "g", "i", "f">>
TEXT_PLAIN == <<"t", "e", "x", "t", "/", "p", "l", "a", "i", "n">>
IMAGE_WEBP_UPPER == <<"I", "M", "A", "G", "E", "/", "W", "E", "B", "P">>

Upload(fn, ct, st, im) == [filename |-> fn, content_type |-> ct, stream |-> st, img |-> im]

OneChunk == <<READ_SIZE>>
TooLong == <<READ_SIZE, READ_SIZE, READ_SIZE, READ_SIZE, 1, 1>>

\* the uploads a client sends: one name with two image sizes, an upload accepted
\* by its media type only (its content is no image), one that is refused, and
\* one accepted by its extension only, which is longer than the ceiling
UploadKinds ==
    { Upload(A_PNG, IMAGE_PNG, OneChunk, SMALL),
      Upload(A_PNG, IMAGE_PNG, OneChunk, LARGE),
      Upload(NOTES_TXT, IMAGE_WEBP_UPPER, <<1>>, Undecodable),
      Upload(X_GIF, IMAGE_GIF, OneChunk, SMALL),
      Upload(B_C_JPG, TEXT_PLAIN, TooLong, SMALL) }

\* batches of up to MaxBatch uploads, and the batches of MAX_FILES and
\* MAX_FILES + 1 refused uploads
Batches ==
    UNION {[1..n -> UploadKinds] : n \in 0..MaxBatch}
    \cup {[i \in 1..n |-> Upload(X_GIF, IMAGE_GIF, OneChunk, SMALL)] :
            n \in {MAX_FILES, MAX_FILES + 1}}

\* the batch each of two requests handled at once sends
ConcurrentBatches ==
    {<<Upload(A_PNG, IMAGE_PNG, OneChunk, SMALL), Upload(A_PNG, IMAGE_PNG, OneChunk, LARGE)>>}

\* every stream of up to MaxStream chunks of 1 or READ_SIZE bytes
Streams == UNION {[1..n -> {1, READ_SIZE}] : n \in 0..MaxStream}

\* a first upload with any stream, and a second one
StreamBatches ==
    {<<Upload(A_PNG, IMAGE_PNG, st, LARGE), Upload(A_PNG, IMAGE_PNG, OneChunk, SMALL)>> :
        st \in Streams}

BatchesOf(w) ==
    CASE w = "single" -> Batches
      [] w = "concurrent" -> ConcurrentBatches
      [] w = "stream" -> StreamBatches

Reqs == {"r1", "r2"}
NoReq == "none"

VARIABLES
    workload,  \* what the clients send: "single" and "stream": r1 alone;
               \* "concurrent": r1 and r2 share the event loop
    running,   \* the request that holds the event loop, NoReq at an await
    req,       \* per request: its position and the locals of blend_endpoint
    dirs,      \* the directories that exist under /tmp
    fs,        \* the files that exist: path -> [len, img]
    bk, bout, bacc \* the blend check: images folded, running blend, running sum

vars == <<workload, running, req, dirs, fs, bk, bout, bacc>>
blendVars == <<bk, bout, bacc>>

NoImage == [has |-> FALSE, size |-> Undecodable, via |-> "none"]
NoResponse == [status |-> 0, detail |-> <<>>, size |-> Undecodable]

Response(st, det, sz) == [status |-> st, detail |-> det, size |-> sz]

IdleReq ==
    [pc |-> "idle", files |-> <<>>, td |-> NoDir, i |-> 0, dest |-> NoPath,
     total |-> 0, calls |-> <<>>, file_bytes |-> <<>>, file_paths |-> <<>>,
     blend_mod |-> FALSE, image |-> NoImage, tried |-> <<>>, engine |-> FALSE,
     raised |-> "none", pending |-> NoResponse, response |-> NoResponse]

EmptyFs == [p \in {} |-> [len |-> 0, img |-> Undecodable]]

Init ==
    /\ workload \in {"single", "concurrent", "stream"}
    /\ running = NoReq
    /\ req = [r \in Reqs |-> IdleReq]
    /\ dirs = {}
    /\ fs = EmptyFs
    /\ bk = 0 /\ bout = 0 /\ bacc = 0

\* r holds the event loop
Holds(r) == running = r

\* a request is delivered to blend_endpoint with its parsed batch
Arrive(r) ==
    /\ running = NoReq
    /\ req[r].pc = "idle"
    /\ workload # "concurrent" => r = "r1"
    /\ \E b \in BatchesOf(workload) :
         req' = [req EXCEPT ![r] = [IdleReq EXCEPT
                    !.pc = "check_count", !.files = b,
                    !.calls = [k \in 1..Len(b) |-> 0]]]
    /\ running' = r
    /\ UNCHANGED <<workload, dirs, fs, blendVars>>

\* a slip: the upper limit is not checked
InvalidBatchNoMax(files) == Len(files) = 0 \/ Len(files) < MIN_FILES

\* line 153
InvalidBatch(files) == Len(files) = 0 \/ Len(files) < MIN_FILES \/ Len(files) > MAX_FILES

\* lines 153-157
CheckCount(r) ==
    /\ Holds(r)
    /\ req[r].pc = "check_count"
    /\ req' = [req EXCEPT ![r] =
                 IF InvalidBatch(req[r].files)
                 THEN [@ EXCEPT !.pc = "responded", !.response = Response(422, <<>>, Undecodable)]
                 ELSE [@ EXCEPT !.pc = "check_types"]]
    /\ UNCHANGED <<workload, running, dirs, fs, blendVars>>

\* a slip: any extension at all makes the upload acceptable
UnsupportedAnyExt(uf) ==
    lower(uf.content_type) \notin ACCEPTED_MEDIA_TYPES /\ PathSuffix(uf.filename) = <<>>

\* lines 160-162: the upload is refused
Unsupported(uf) ==
    LET content_type == lower(uf.content_type)
        ext_ok == lower(PathSuffix(uf.filename)) \in ACCEPTED_EXTS
    IN content_type \notin ACCEPTED_MEDIA_TYPES /\ ~ext_ok

\* lines 159-166
CheckTypes(r) ==
    /\ Holds(r)
    /\ req[r].pc = "check_types"
    /\ req' = [req EXCEPT ![r] =
                 IF \E k \in 1..Len(req[r].files) : Unsupported(req[r].files[k])
                 THEN [@ EXCEPT !.pc = "responded", !.response = Response(415, <<>>, Undecodable)]
                 ELSE [@ EXCEPT !.pc = "mkdtemp"]]
    /\ UNCHANGED <<workload, running, dirs, fs, blendVars>>

\* mkdtemp: a name no existing directory has
FreshDirs(existing) == DirNames \ existing

\* lines 169-172
MakeTempDir(r) ==
    /\ Holds(r)
    /\ req[r].pc = "mkdtemp"
    /\ \E d \in FreshDirs(dirs) :
         /\ dirs' = dirs \cup {d}
         /\ req' = [req EXCEPT ![r] = [@ EXCEPT !.pc = "next_file", !.td = d, !.i = 1]]
    /\ UNCHANGED <<workload, running, fs, blendVars>>

IMAGE_PNG_NAME == <<"i", "m", "a", "g", "e", ".", "p", "n", "g">>

\* `uf.filename or "image.png"`
NameOrDefault(fn) == IF fn = <<>> THEN IMAGE_PNG_NAME ELSE fn

\* lines 173-175: the next upload's destination, or the loop's end
NextFile(r) ==
    /\ Holds(r)
    /\ req[r].pc = "next_file"
    /\ \/ /\ req[r].i <= Len(req[r].files)
          /\ \E token \in Tokens :
               LET safe == _sanitize_filename(NameOrDefault(req[r].files[req[r].i].filename), token)
               IN req' = [req EXCEPT ![r] = [@ EXCEPT !.pc = "open", !.dest = <<req[r].td, safe>>]]
       \/ /\ req[r].i > Len(req[r].files)
          /\ req' = [req EXCEPT ![r] = [@ EXCEPT !.pc = "import", !.dest = NoPath]]
    /\ UNCHANGED <<workload, running, dirs, fs, blendVars>>

\* open(path, "wb"): the file exists and is empty
Truncated(disk, path) ==
    [p \in DOMAIN disk \cup {path} |->
        IF p = path THEN [len |-> 0, img |-> Undecodable] ELSE disk[p]]

\* f_out.write(chunk): n more bytes of an upload whose content decodes to im
Written(disk, path, n, im) ==
    [disk EXCEPT ![path] = [len |-> @.len + n, img |-> im]]

\* _save_and_read, lines 42-46: total = 0, the destination is opened, and the
\* coroutine is suspended in its first upload.read
OpenDest(r) ==
    /\ Holds(r)
    /\ req[r].pc = "open"
    /\ fs' = Truncated(fs, req[r].dest)
    /\ req' = [req EXCEPT ![r] = [@ EXCEPT !.pc = "read", !.total = 0]]
    /\ running' = NoReq
    /\ UNCHANGED <<workload, dirs, blendVars>>

\* a slip: a total equal to the ceiling is refused too
ExceedsOrEqual(total) == total >= MAX_FILE_BYTES

\* line 50
Exceeds(total) == total > MAX_FILE_BYTES

\* line 46: what the next upload.read(READ_SIZE) returns after `done` reads,
\* as a length; 0 at the end of the stream
Chunk(uf, done) == IF done < Len(uf.stream) THEN uf.stream[done + 1] ELSE 0

\* the upload being saved, and the chunk its pending read returns
Current(r) == req[r].files[req[r].i]
Pending(r) == Chunk(Current(r), req[r].calls[req[r].i])

\* lines 46-48, 58: the read returns nothing; the loop ends and the file is closed
ReadEnd(r) ==
    /\ running = NoReq
    /\ req[r].pc = "read"
    /\ Pending(r) = 0
    /\ req' = [req EXCEPT ![r] = [@ EXCEPT !.pc = "readback", !.calls[req[r].i] = @ + 1]]
    /\ running' = r
    /\ UNCHANGED <<workload, dirs, fs, blendVars>>

\* lines 46-57: the read returns a chunk within the ceiling, which is written;
\* the coroutine is suspended in the next read
ReadWrite(r) ==
    /\ running = NoReq
    /\ req[r].pc = "read"
    /\ Pending(r) > 0
    /\ ~Exceeds(req[r].total + Pending(r))
    /\ req' = [req EXCEPT ![r] = [@ EXCEPT !.total = @ + Pending(r), !.calls[req[r].i] = @ + 1]]
    /\ fs' = Written(fs, req[r].dest, Pending(r), Current(r).img)
    /\ UNCHANGED <<workload, running, dirs, blendVars>>

\* lines 51-56: the exception names the upload's declared filename
PayloadTooLarge(upload) == Response(413, upload.filename, Undecodable)

\* lines 46-56: the chunk takes the total over the ceiling: HTTPException(413)
ReadOverflow(r) ==
    /\ running = NoReq
    /\ req[r].pc = "read"
    /\ Pending(r) > 0
    /\ Exceeds(req[r].total + Pending(r))
    /\ req' = [req EXCEPT ![r] = [@ EXCEPT
                  !.total = @ + Pending(r), !.calls[req[r].i] = @ + 1,
                  !.pc = "exit_with", !.raised = "HTTPException",
                  !.pending = PayloadTooLarge(Current(r))]]
    /\ running' = r
    /\ UNCHANGED <<workload, dirs, fs, blendVars>>

\* the client disconnects while the read is suspended: the read raises
\* CancelledError, which no except clause of blend_endpoint catches
Disconnect(r) ==
    /\ running = NoReq
    /\ req[r].pc = "read"
    /\ req' = [req EXCEPT ![r] = [@ EXCEPT !.pc = "exit_with", !.raised = "CancelledError"]]
    /\ running' = r
    /\ UNCHANGED <<workload, dirs, fs, blendVars>>

\* lines 58, 176-178: dest.read_bytes(), appended with the path
ReadBack(r) ==
    /\ Holds(r)
    /\ req[r].pc = "readback"
    /\ req' = [req EXCEPT ![r] = [@ EXCEPT
                  !.pc = "next_file", !.i = @ + 1,
                  !.file_bytes = Append(@, fs[req[r].dest]),
                  !.file_paths = Append(@, req[r].dest)]]
    /\ UNCHANGED <<workload, running, dirs, fs, blendVars>>

(***************************************************************************)
(* The plugin resolver.  The plugin is not part of the program: what its   *)
(* import, its entry points and its command line do is chosen freely.      *)
(***************************************************************************)
\* the size of the images a plugin produces
PLUGIN_SIZE == LARGE

\* Image.open of a file: its size, or Undecodable (an empty file is no image)
Decode(file) == IF file.len = 0 THEN Undecodable ELSE file.img

Value(kind, im, path) == [kind |-> kind, img |-> im, path |-> path]

\* what an entry point may return: an image, encoded bytes or a BytesIO (an
\* image or not), the name of a stored or of a missing file, anything else
PluginValues(rq) ==
    {Value("Image", PLUGIN_SIZE, NoPath)}
    \cup {Value(k, im, NoPath) : k \in {"bytes", "BytesIO"}, im \in {PLUGIN_SIZE, Undecodable}}
    \cup {Value("str", Undecodable, p) : p \in {rq.file_paths[1], <<rq.td, MISSING>>}}
    \cup {Value("other", Undecodable, NoPath)}

Raised == [ok |-> FALSE, size |-> Undecodable]
Opened(size) == IF size = Undecodable THEN Raised ELSE [ok |-> TRUE, size |-> size]

\* _ensure_pillow_image, lines 61-73: the image, or an exception
_ensure_pillow_image(obj, disk) ==
    CASE obj.kind = "Image" -> [ok |-> TRUE, size |-> obj.img]
      [] obj.kind = "bytes" -> Opened(obj.img)
      [] obj.kind = "BytesIO" -> Opened(obj.img)
      [] obj.kind = "str" /\ obj.path \in DOMAIN disk -> Opened(Decode(disk[obj.path]))
      [] OTHER -> Raised

\* line 98: the exceptions of the import that are caught
ImportCaught == {"ModuleNotFoundError"}

\* lines 93-99: the import finds the module, or raises
Import(r) ==
    /\ Holds(r)
    /\ req[r].pc = "import"
    /\ \E outcome \in {"module", "ModuleNotFoundError", "ImportError"} :
         req' = [req EXCEPT ![r] =
                   IF outcome = "module" THEN [@ EXCEPT !.pc = "from_files", !.blend_mod = TRUE]
                   ELSE IF outcome \in ImportCaught
                   THEN [@ EXCEPT !.pc = "from_files", !.blend_mod = FALSE]
                   ELSE [@ EXCEPT !.pc = "exit_with", !.raised = "Exception"]]
    /\ UNCHANGED <<workload, running, dirs, fs, blendVars>>

Tried(rq, stage, outcome) == Append(rq.tried, <<stage, outcome>>)

\* a slip: a failure of the in-memory entry point skips the file-path one
NextStageSkip(stage) ==
    CASE stage = "from_files" -> "cli"
      [] stage = "from_paths" -> "cli"
      [] stage = "cli" -> "resolved"

\* lines 105-108, 116-119, 139-140: where a stage that gave no image falls through
NextStage(stage) ==
    CASE stage = "from_files" -> "from_paths"
      [] stage = "from_paths" -> "cli"
      [] stage = "cli" -> "resolved"

Missed(rq, stage, outcome) ==
    [rq EXCEPT !.pc = NextStage(stage), !.tried = Tried(rq, stage, outcome)]

Found(rq, stage, size) ==
    [rq EXCEPT !.pc = "resolved", !.tried = Tried(rq, stage, "ok"),
               !.image = [has |-> TRUE, size |-> size, via |-> stage]]

\* lines 101-106: blend_images_from_files(file_bytes)
FromFiles(r) ==
    /\ Holds(r)
    /\ req[r].pc = "from_files"
    /\ \/ \* the module is absent or has no such entry point
          /\ req' = [req EXCEPT ![r] = Missed(req[r], "from_files", "absent")]
       \/ \* the entry point raises
          /\ req[r].blend_mod
          /\ req' = [req EXCEPT ![r] = Missed(req[r], "from_files", "failed")]
       \/ \* the entry point returns
          /\ req[r].blend_mod
          /\ \E result \in PluginValues(req[r]) :
               LET im == _ensure_pillow_image(result, fs) IN
               req' = [req EXCEPT ![r] =
                         IF im.ok THEN Found(req[r], "from_files", im.size)
                         ELSE Missed(req[r], "from_files", "failed")]
    /\ UNCHANGED <<workload, running, dirs, fs, blendVars>>

\* lines 111-115: the result normalised, else opened as a file name; an
\* exception of the second attempt is the stage's failure
PathResult(result, disk) ==
    LET im == _ensure_pillow_image(result, disk) IN
    IF im.ok THEN im
    ELSE IF result.kind = "str" /\ result.path \in DOMAIN disk
         THEN Opened(Decode(disk[result.path]))
         ELSE Raised

\* lines 108-117: blend_images(file_paths)
FromPaths(r) ==
    /\ Holds(r)
    /\ req[r].pc = "from_paths"
    /\ \/ /\ req' = [req EXCEPT ![r] = Missed(req[r], "from_paths", "absent")]
       \/ /\ req[r].blend_mod
          /\ req' = [req EXCEPT ![r] = Missed(req[r], "from_paths", "failed")]
       \/ /\ req[r].blend_mod
          /\ \E result \in PluginValues(req[r]) :
               LET im == PathResult(result, fs) IN
               req' = [req EXCEPT ![r] =
                         IF im.ok THEN Found(req[r], "from_paths", im.size)
                         ELSE Missed(req[r], "from_paths", "failed")]
    /\ UNCHANGED <<workload, running, dirs, fs, blendVars>>

\* what the command line leaves at out_path: nothing, an image, or other bytes
CliOutputs == {"nothing", "image", "garbage"}

AfterCli(disk, out_path, wrote) ==
    IF wrote = "nothing" THEN disk
    ELSE [p \in DOMAIN disk \cup {out_path} |->
            IF p = out_path
            THEN [len |-> 1, img |-> IF wrote = "image" THEN PLUGIN_SIZE ELSE Undecodable]
            ELSE disk[p]]

\* lines 132-138 after the process has run
CliResult(returncode, out_path, disk) ==
    IF returncode # 0 THEN Raised
    ELSE IF out_path \notin DOMAIN disk THEN Raised
    ELSE Opened(Decode(disk[out_path]))

\* lines 119-140: python blend.py <paths> -o <temp_dir>/out.png
Cli(r) ==
    /\ Holds(r)
    /\ req[r].pc = "cli"
    /\ \E returncode \in {0, 1}, wrote \in CliOutputs :
         LET out_path == <<req[r].td, OUT_PNG>>
             disk == AfterCli(fs, out_path, wrote)
             im == CliResult(returncode, out_path, disk)
         IN /\ fs' = disk
            /\ req' = [req EXCEPT ![r] =
                         IF im.ok THEN Found(req[r], "cli", im.size)
                         ELSE Missed(req[r], "cli", "failed")]
    /\ UNCHANGED <<workload, running, dirs, blendVars>>

(***************************************************************************)
(* The fallback blend engine.                                              *)
(***************************************************************************)
\* _blend_internal_average, lines 78-87, as to the result's size: every path is
\* opened, and the result has the first image's size
_blend_internal_average(paths, disk) ==
    LET images == [k \in 1..Len(paths) |-> Decode(disk[paths[k]])] IN
    IF Len(paths) = 0 \/ \E k \in 1..Len(paths) : images[k] = Undecodable
    THEN Raised
    ELSE [ok |-> TRUE, size |-> images[1]]

\* lines 181-182: no plugin stage gave an image
Fallback(r) ==
    /\ Holds(r)
    /\ req[r].pc = "resolved"
    /\ ~req[r].image.has
    /\ LET im == _blend_internal_average(req[r].file_paths, fs) IN
       req' = [req EXCEPT ![r] =
                 IF im.ok
                 THEN [@ EXCEPT !.pc = "encode", !.engine = TRUE,
                                !.image = [has |-> TRUE, size |-> im.size, via |-> "engine"]]
                 ELSE [@ EXCEPT !.pc = "exit_with", !.engine = TRUE, !.raised = "Exception"]]
    /\ UNCHANGED <<workload, running, dirs, fs, blendVars>>

\* lines 181, 184-189: the image is saved as PNG and returned
Encode(r) ==
    /\ Holds(r)
    /\ \/ req[r].pc = "encode"
       \/ req[r].pc = "resolved" /\ req[r].image.has
    /\ req' = [req EXCEPT ![r] = [@ EXCEPT
                  !.pc = "exit_with",
                  !.pending = Response(200, <<>>, req[r].image.size)]]
    /\ UNCHANGED <<workload, running, dirs, fs, blendVars>>

\* a slip: only the stored uploads are deleted, not what else is in the directory
RemoveTreeUploads(disk, d) ==
    [p \in {q \in DOMAIN disk : q[1] # d \/ q[2] = OUT_PNG} |-> disk[p]]

\* shutil.rmtree of the temporary directory
RemoveTree(disk, d) == [p \in {q \in DOMAIN disk : q[1] # d} |-> disk[p]]

\* a slip: without `except HTTPException: raise` every exception becomes a 500
SurfacedAs500(raised, pending) ==
    CASE raised = "none" -> pending
      [] raised = "CancelledError" -> NoResponse
      [] OTHER -> Response(500, <<>>, Undecodable)

\* lines 189-195: what the client gets: the returned response, the
\* HTTPException re-raised as it is, 500 for any other Exception, and nothing
\* when the task was cancelled
Surfaced(raised, pending) ==
    CASE raised = "none" -> pending
      [] raised = "HTTPException" -> pending
      [] raised = "Exception" -> Response(500, <<>>, Undecodable)
      [] raised = "CancelledError" -> NoResponse

\* line 169, leaving the `with` block by return or by exception: the directory
\* is removed, then lines 189-195 give the response
ExitWith(r) ==
    /\ Holds(r)
    /\ req[r].pc = "exit_with"
    /\ fs' = RemoveTree(fs, req[r].td)
    /\ dirs' = dirs \ {req[r].td}
    /\ req' = [req EXCEPT ![r] = [@ EXCEPT
                  !.pc = IF req[r].raised = "CancelledError" THEN "cancelled" ELSE "responded",
                  !.response = Surfaced(req[r].raised, req[r].pending)]]
    /\ UNCHANGED <<workload, running, blendVars>>

\* the request is over: its coroutine and its locals are gone
Finish(r) ==
    /\ Holds(r)
    /\ req[r].pc \in {"responded", "cancelled"}
    /\ req' = [req EXCEPT ![r] = IdleReq]
    /\ running' = NoReq
    /\ UNCHANGED <<workload, dirs, fs, blendVars>>

Next ==
    \E r \in Reqs :
        \/ Arrive(r) \/ CheckCount(r) \/ CheckTypes(r) \/ MakeTempDir(r)
        \/ NextFile(r) \/ OpenDest(r)
        \/ ReadEnd(r) \/ ReadWrite(r) \/ ReadOverflow(r) \/ Disconnect(r)
        \/ ReadBack(r)
        \/ Import(r) \/ FromFiles(r) \/ FromPaths(r) \/ Cli(r)
        \/ Fallback(r) \/ Encode(r)
        \/ ExitWith(r) \/ Finish(r)

Spec == Init /\ [][Next]_vars

(***************************************************************************)
(* The two averaging strategies, on one channel of one pixel: both work    *)
(* channel by channel on images of one size.                               *)
(***************************************************************************)
Pixels == 0..MaxPixel

\* Image.blend(out, im, 1.0 / i), line 86: out + (im - out) / i, stored as an
\* 8-bit value, the fraction dropped
ImageBlend(out, im, i) == ((i - 1) * out + im) \div i

\* blend.py line 32: np.mean(...).astype(np.uint8), the fraction dropped
MeanOf(sum, n) == sum \div n

\* the first image: line 83, and the first term of the sum
InitBlend ==
    /\ workload = "single"
    /\ running = NoReq
    /\ req = [r \in Reqs |-> IdleReq]
    /\ dirs = {}
    /\ fs = EmptyFs
    /\ bk = 1
    /\ bout \in Pixels
    /\ bacc = bout

\* lines 85-86: the next image of the batch is folded in
BlendStep ==
    /\ bk < MAX_FILES
    /\ \E im \in Pixels :
         /\ bout' = ImageBlend(bout, im, bk + 1)
         /\ bacc' = bacc + im
    /\ bk' = bk + 1
    /\ UNCHANGED <<workload, running, req, dirs, fs>>

SpecBlend == InitBlend /\ [][BlendStep]_vars

(***************************************************************************)
(* What the claims speak of.                                               *)
(***************************************************************************)
RECURSIVE Sum(_, _)
\* the bytes of the first n chunks of a stream
Sum(st, n) == IF n = 0 THEN 0 ELSE st[n] + Sum(st, n - 1)

StreamTotal(uf) == Sum(uf.stream, Len(uf.stream))

\* the bytes the request has read from its k-th upload
BytesRead(rq, k) ==
    LET n == IF rq.calls[k] < Len(rq.files[k].stream) THEN rq.calls[k]
             ELSE Len(rq.files[k].stream)
    IN Sum(rq.files[k].stream, n)

\* the read that takes a stream over the ceiling; 0 when none does
FirstOver(st) ==
    IF \E n \in 1..Len(st) : Sum(st, n) > MAX_FILE_BYTES
    THEN CHOOSE n \in 1..Len(st) :
           Sum(st, n) > MAX_FILE_BYTES /\ \A m \in 1..(n - 1) : Sum(st, m) <= MAX_FILE_BYTES
    ELSE 0

OutOfRange(n) == n < MIN_FILES \/ n > MAX_FILES

\* the upload's declared media type and its extension are both outside the
\* accepted sets (letter case apart)
DeclaredUnsupported(uf) ==
    /\ lower(uf.content_type) \notin {IMAGE_PNG, IMAGE_JPEG, IMAGE_WEBP}
    /\ lower(PathSuffix(uf.filename)) \notin {PNG, JPG, JPEG, WEBP}

NothingRead(rq) == \A k \in 1..Len(rq.files) : rq.calls[k] = 0

NothingUnder(d) == d \notin dirs /\ \A p \in DOMAIN fs : p[1] # d

\* C1: a request with fewer than 2 or more than 15 files is answered 422
\* whatever its files declare; it reads no upload, creates no temporary
\* directory and stores no file.
ThmC1 ==
    \A r \in Reqs :
        (req[r].pc # "idle" /\ OutOfRange(Len(req[r].files))) =>
            /\ req[r].pc \in {"check_count", "responded"}
            /\ req[r].pc = "responded" => req[r].response.status = 422
            /\ NothingRead(req[r])
            /\ req[r].td = NoDir /\ req[r].dest = NoPath /\ req[r].file_paths = <<>>
            /\ workload # "concurrent" => dirs = {} /\ fs = EmptyFs

WitC1 ==
    \E r \in Reqs :
        /\ req[r].pc = "responded"
        /\ Len(req[r].files) = MAX_FILES + 1
        /\ req[r].response.status = 422

\* C2 as stated: every request with an upload whose media type and extension
\* are both unsupported is answered 415, no upload having been read.
ClaimC2 ==
    \A r \in Reqs :
        (req[r].pc = "responded"
           /\ \E k \in 1..Len(req[r].files) : DeclaredUnsupported(req[r].files[k])) =>
            req[r].response.status = 415 /\ NothingRead(req[r])

\* C2 amended: every request of 2 to 15 files with an upload whose media type
\* and extension are both unsupported is answered 415; no upload is read and no
\* temporary directory is created.
ThmC2 ==
    \A r \in Reqs :
        (req[r].pc # "idle" /\ ~OutOfRange(Len(req[r].files))
           /\ \E k \in 1..Len(req[r].files) : DeclaredUnsupported(req[r].files[k])) =>
            /\ req[r].pc \in {"check_count", "check_types", "responded"}
            /\ req[r].pc = "responded" => req[r].response.status = 415
            /\ NothingRead(req[r])
            /\ req[r].td = NoDir

\* the offending upload is the last of three; the two before it are accepted
WitC2 ==
    \E r \in Reqs :
        /\ req[r].pc = "responded"
        /\ req[r].response.status = 415
        /\ Len(req[r].files) = 3
        /\ DeclaredUnsupported(req[r].files[3])
        /\ ~DeclaredUnsupported(req[r].files[1]) /\ ~DeclaredUnsupported(req[r].files[2])

\* C3: once the bytes read from an upload exceed 4 MiB the request ends with
\* 413 naming that upload's filename: no later upload is read, neither the
\* resolver nor the engine runs, and when the response exists nothing is left
\* of the temporary directory.
ThmC3 ==
    \A r \in Reqs : \A k \in 1..Len(req[r].files) :
        BytesRead(req[r], k) > MAX_FILE_BYTES =>
            /\ req[r].pc \in {"exit_with", "responded"}
            /\ req[r].raised = "HTTPException"
            /\ req[r].pc = "responded" =>
                  /\ req[r].response.status = 413
                  /\ req[r].response.detail = req[r].files[k].filename
                  /\ NothingUnder(req[r].td)
            /\ \A j \in (k + 1)..Len(req[r].files) : req[r].calls[j] = 0
            /\ req[r].tried = <<>> /\ ~req[r].engine /\ ~req[r].image.has

\* the second of three uploads overflows: one file was stored before it
WitC3 ==
    \E r \in Reqs :
        /\ req[r].pc = "responded"
        /\ Len(req[r].files) = 3
        /\ BytesRead(req[r], 2) > MAX_FILE_BYTES
        /\ Len(req[r].file_paths) = 1

\* C4: when a request that created its temporary directory has ended (a
\* response, or the cancellation of a suspended read), the directory and every
\* file in it are gone; with no request in flight nothing is left at all.
ThmC4 ==
    /\ \A r \in Reqs :
          (req[r].td # NoDir /\ req[r].pc \in {"responded", "cancelled"}) =>
              NothingUnder(req[r].td)
    /\ (\A r \in Reqs : req[r].pc = "idle") => dirs = {} /\ fs = EmptyFs

\* a read is cancelled after a file was stored
WitC4 ==
    \E r \in Reqs :
        /\ req[r].pc = "cancelled"
        /\ req[r].td # NoDir
        /\ Len(req[r].file_paths) >= 1

\* the uploads are images and none is longer than the ceiling
Blendable(files) ==
    /\ ~OutOfRange(Len(files))
    /\ \A k \in 1..Len(files) :
          /\ ~DeclaredUnsupported(files[k])
          /\ files[k].img # Undecodable
          /\ 0 < StreamTotal(files[k]) /\ StreamTotal(files[k]) <= MAX_FILE_BYTES

\* C5, as to the size (the claim also demands that the answer is 200): the
\* image returned for a valid batch of decodable images has the size of the
\* batch's first image, whichever path produced it.
ClaimC5 ==
    \A r \in Reqs :
        (req[r].pc = "responded" /\ Blendable(req[r].files)
           /\ req[r].response.status = 200) =>
            req[r].response.size = req[r].files[1].img

\* C6: the resolver never raises: once every upload is stored, the request
\* leaves the `with` block only with an image of a plugin stage or after the
\* fallback engine was invoked.
ClaimC6 ==
    \A r \in Reqs :
        (req[r].pc \in {"exit_with", "responded"}
           /\ Len(req[r].files) >= MIN_FILES
           /\ Len(req[r].file_paths) = Len(req[r].files)) =>
            req[r].image.has \/ req[r].engine

Abs(x) == IF x < 0 THEN 0 - x ELSE x

\* C7: for every batch of 2 to 15 images the incremental blend is within 2
\* levels of the accumulate-and-divide mean.
ClaimC7 ==
    bk >= MIN_FILES => Abs(bout - MeanOf(bacc, bk)) <= 2

\* C8: no upload is written to a path that holds another upload, and no two
\* requests have the same temporary directory.
ClaimC8 ==
    /\ \A r \in Reqs : req[r].pc = "open" => req[r].dest \notin DOMAIN fs
    /\ \A r1, r2 \in Reqs :
          (r1 # r2 /\ req[r1].td # NoDir /\ req[r2].td # NoDir) => req[r1].td # req[r2].td

StageOrder == <<"from_files", "from_paths", "cli">>

\* C9: the stages are tried in the order in-memory, file-path, command line;
\* a stage is tried only after every earlier one was absent or failed; the
\* image is that of the stage that succeeded, which is the last one tried; and
\* there is no result, or a use of the engine, only after the command line
\* failed.
ThmC9 ==
    \A r \in Reqs :
        LET t == req[r].tried IN
        /\ Len(t) <= 3
        /\ \A k \in 1..Len(t) : t[k][1] = StageOrder[k]
        /\ \A k \in 1..(Len(t) - 1) : t[k][2] \in {"absent", "failed"}
        /\ req[r].pc = "from_files" => Len(t) = 0
        /\ req[r].pc = "from_paths" => Len(t) = 1
        /\ req[r].pc = "cli" => Len(t) = 2
        /\ (req[r].image.has /\ req[r].image.via # "engine") =>
              /\ Len(t) >= 1 /\ t[Len(t)] = <<req[r].image.via, "ok">>
              /\ ~req[r].engine
        /\ ((req[r].pc = "resolved" /\ ~req[r].image.has) \/ req[r].engine) =>
              Len(t) = 3 /\ t[3] = <<"cli", "failed">>

\* both entry points failed and the command line gave the image
WitC9 ==
    \E r \in Reqs :
        /\ req[r].pc = "resolved"
        /\ req[r].tried = <<<<"from_files", "failed">>, <<"from_paths", "failed">>, <<"cli", "ok">>>>
        /\ req[r].image.via = "cli"

\* C10: no file ever holds more than 4 MiB; the chunk that takes an upload
\* over the ceiling is not written and is the last one read; a stream within
\* the ceiling (4 MiB exactly included) is written in full and returned.
ThmC10 ==
    /\ \A p \in DOMAIN fs : fs[p].len <= MAX_FILE_BYTES
    /\ \A r \in Reqs : \A k \in 1..Len(req[r].files) :
          LET uf == req[r].files[k]
              over == FirstOver(uf.stream)
              saving == req[r].i = k /\ req[r].dest \in DOMAIN fs
          IN /\ over > 0 => req[r].calls[k] <= over
             /\ (saving /\ req[r].pc = "read") =>
                   fs[req[r].dest].len = Sum(uf.stream, req[r].calls[k])
             /\ (saving /\ over > 0 /\ req[r].calls[k] = over) =>
                   fs[req[r].dest].len = Sum(uf.stream, over - 1)
             /\ (req[r].i = k /\ req[r].raised = "HTTPException") => over > 0
             /\ (over = 0 /\ req[r].calls[k] = Len(uf.stream) + 1) =>
                   \/ req[r].pc = "readback" /\ saving /\ fs[req[r].dest].len = StreamTotal(uf)
                   \/ k <= Len(req[r].file_bytes) /\ req[r].file_bytes[k].len = StreamTotal(uf)

\* a stream of exactly 4 MiB was stored and returned
WitC10 ==
    \E r \in Reqs :
        /\ Len(req[r].file_bytes) >= 1
        /\ StreamTotal(req[r].files[1]) = MAX_FILE_BYTES
        /\ req[r].file_bytes[1].len = MAX_FILE_BYTES

=============================================================================
